---- MODULE Spec2Model ----
(***************************************************************************)
(* A model of planetary_fetch (src/planetary_fetch/planetary_fetch.py):    *)
(*   - FileOrganizer: the filename classifier (organize and                *)
(*     _build_directory_path), on strings modelled as sequences of         *)
(*     one-character strings;                                              *)
(*   - PlanetaryFetchLib._save_dict: the merge of a batch of product       *)
(*     records into the persisted ledger my_dict.json;                     *)
(*   - Files.download: the resume scan and the thread pool of download     *)
(*     tasks that share one FileOrganizer;                                 *)
(*   - PlanetaryFetchLib.run: query, parse, save, download.                *)
(***************************************************************************)
EXTENDS Integers, Sequences, FiniteSets, TLC

VARIABLES
    \* FileOrganizer used alone (SpecClassify)
    cname,            \* the filename given to the classifier
    cresult,          \* what organize returned or raised
    cdone,            \* whether organize has been called
    cdirs,            \* directories that exist under the base directory
    \* PlanetaryFetchLib._save_dict and the ledger file my_dict.json
    ledger,           \* the file: [st |-> "absent" | "json" | "empty", recs]
    metadata,         \* the local variable metadata of _save_dict
    spc,              \* where _save_dict stands
    callBatch,        \* the argument of the latest _save_dict call
    prevBatch,        \* the argument of the call before it
    prevSpc,          \* where the call before it ended
    preLedger,        \* the ledger file when the latest call began
    nMerges,          \* the number of _save_dict calls so far
    \* Files.download
    urls,             \* Files.__urls
    max_workers,      \* Files.max_workers
    files,            \* the files on disk: path |-> [src, full]
    dirs,             \* the directories on disk under the output directory
    fo_filename,      \* FileOrganizer.__filename, shared by every task
    mpc,              \* where the thread that called download stands
    nscan,            \* how many URLs the resume scan has visited
    list_to_download, \* the work list the resume scan builds
    task,             \* the submitted tasks: pc and locals of _download_url
    futures,          \* the futures the wait loop still holds
    completed_count,  \* the local variable completed_count of download
    skipped,          \* URLs a resume scan skipped as already downloaded
    fetchCount,       \* requests.get calls the tasks of this call started
    preFiles,         \* the files on disk when this call began
    nCalls,           \* the number of download calls so far
    \* PlanetaryFetchLib.run
    rpc,              \* where run stands
    response,         \* what the catalog answered to the query of this run
    nRuns,            \* the number of run calls so far
    \* __main__.run, the command-line entry point
    argv,             \* the options given on the command line
    main_pc,          \* where __main__.run stands
    SIGINT,           \* SigintHandler.SIGINT
    exit_code         \* the exit code of the process, NotExited while it runs

cvars == <<cname, cresult, cdone, cdirs>>

lvars == <<ledger, metadata, spc, callBatch, prevBatch, prevSpc, preLedger,
          nMerges>>

clivars == <<argv, main_pc, SIGINT, exit_code>>

rvars == <<rpc, response, nRuns, argv, main_pc, SIGINT, exit_code>>

dvars == <<urls, max_workers, files, dirs, fo_filename, mpc, nscan,
           list_to_download, task, futures, completed_count, skipped,
           fetchCount, preFiles, nCalls>>

vars == <<cname, cresult, cdone, cdirs,
          ledger, metadata, spc, callBatch, prevBatch, prevSpc, preLedger,
          nMerges,
          urls, max_workers, files, dirs, fo_filename, mpc, nscan,
          list_to_download, task, futures, completed_count, skipped,
          fetchCount, preFiles, nCalls,
          rpc, response, nRuns, argv, main_pc, SIGINT, exit_code>>

-----------------------------------------------------------------------------
(* Strings: a Python str is a sequence of one-character strings.           *)

UpperChars ==
    <<"A","B","C","D","E","F","G","H","I","J","K","L","M",
      "N","O","P","Q","R","S","T","U","V","W","X","Y","Z">>

LowerChars ==
    <<"a","b","c","d","e","f","g","h","i","j","k","l","m",
      "n","o","p","q","r","s","t","u","v","w","x","y","z">>

\* str.lower() on one character
LowerChar(c) ==
    IF \E i \in DOMAIN UpperChars : UpperChars[i] = c
    THEN LowerChars[CHOOSE i \in DOMAIN UpperChars : UpperChars[i] = c]
    ELSE c

\* str.upper() on one character
UpperChar(c) ==
    IF \E i \in DOMAIN LowerChars : LowerChars[i] = c
    THEN UpperChars[CHOOSE i \in DOMAIN LowerChars : LowerChars[i] = c]
    ELSE c

Lower(s) == [i \in 1..Len(s) |-> LowerChar(s[i])]

Upper(s) == [i \in 1..Len(s) |-> UpperChar(s[i])]

\* str.startswith(p)
StartsWith(s, p) ==
    /\ Len(p) <= Len(s)
    /\ \A i \in 1..Len(p) : s[i] = p[i]

\* the Python slice s[a:b] for 0 <= a, 0 <= b (indices clamp to len(s))
Slice(s, a, b) ==
    LET hi == IF b < Len(s) THEN b ELSE Len(s)
    IN  IF hi <= a THEN <<>> ELSE [i \in 1..(hi - a) |-> s[a + i]]

\* str.rfind(c) as a 1-based position, 0 when c does not occur
RFind(s, c) ==
    IF \E i \in 1..Len(s) : s[i] = c
    THEN CHOOSE i \in 1..Len(s) : s[i] = c /\ \A j \in (i+1)..Len(s) : s[j] # c
    ELSE 0

\* os.path.splitext(p)[0]: p cut before its last dot, provided the dot comes
\* after the last "/" and some character between them is not a dot
SplitextRoot(p) ==
    LET sepIndex == RFind(p, "/")
        dotIndex == RFind(p, ".")
    IN  IF /\ dotIndex > sepIndex
           /\ \E k \in (sepIndex + 1)..(dotIndex - 1) : p[k] # "."
        THEN Slice(p, 0, dotIndex - 1)
        ELSE p

\* fnmatch.fnmatch(s, p): "*" matches any run of characters, "?" any one
\* character, every other pattern character itself
RECURSIVE Glob(_, _, _, _)
Glob(s, p, i, j) ==
    IF j > Len(p) THEN i > Len(s)
    ELSE IF p[j] = "*" THEN \E k \in i..(Len(s) + 1) : Glob(s, p, k, j + 1)
    ELSE /\ i <= Len(s)
         /\ (p[j] = "?" \/ s[i] = p[j])
         /\ Glob(s, p, i + 1, j + 1)

FnMatch(s, p) == Glob(s, p, 1, 1)

-----------------------------------------------------------------------------
(* FileOrganizer                                                           *)

Frt == <<"f","r","t">>
Hrl == <<"h","r","l">>
Hrs == <<"h","r","s">>

PatIf == <<"*","_","i","f","*","_","t","r","r","3",".","*">>
PatDe == <<"*","_","d","e","*","_","d","d","r","1",".","*">>

DATA == <<"D","A","T","A">>
DDR == <<"D","D","R">>

\* the base directory given to FileOrganizer
BaseDir == <<"o","u","t">>

\* self.filename.startswith(obs_type), the case kept
IsObsTypeCaseKept(filename, obs_type) == StartsWith(filename, obs_type)

\* self.filename.lower().startswith(obs_type)
IsObsType(filename, obs_type) == StartsWith(Lower(filename), obs_type)

\* self.filename.lower().startswith(f"{obs_type}0000")
IsLongForm(filename, obs_type) ==
    StartsWith(Lower(filename), obs_type \o <<"0","0","0","0">>)

\* self.filename.lower().startswith(f"{obs_type}000")
IsShortForm(filename, obs_type) ==
    StartsWith(Lower(filename), obs_type \o <<"0","0","0">>)

\* the stem characters [3:5], right after the prefix
SubdirectoryAfterPrefix(filename) == Slice(SplitextRoot(filename), 3, 5)

\* os.path.splitext(self.filename)[0][7:9] (line 455)
SubdirectoryLong(filename) == Slice(SplitextRoot(filename), 7, 9)

\* os.path.splitext(self.filename)[0][7:11] (line 456)
SubsubdirectoryLong(filename) == Slice(SplitextRoot(filename), 7, 11)

\* os.path.splitext(self.filename)[0][6:9] (line 476)
SubdirectoryShort(filename) == Slice(SplitextRoot(filename), 6, 9)

\* the stem characters [6:10]
SubsubdirectoryShortFour(filename) == Slice(SplitextRoot(filename), 6, 10)

\* os.path.splitext(self.filename)[0][6:11] (line 477)
SubsubdirectoryShort(filename) == Slice(SplitextRoot(filename), 6, 11)

IsTrr3(filename) == FnMatch(Lower(filename), PatIf)
IsDdr1(filename) == FnMatch(Lower(filename), PatDe)

\* os.path.join(base_directory, obs_type.upper() + subdirectory.upper(),
\*              obs_type.upper() + subsubdirectory.upper(), kind)
\* as the sequence of its path components: no component is empty or starts
\* with "/", so join neither drops nor merges one
DirectoryPath(obs_type, subdirectory, subsubdirectory, kind) ==
    << BaseDir,
       Upper(obs_type) \o Upper(subdirectory),
       Upper(obs_type) \o Upper(subsubdirectory),
       kind >>

Returned(directory) == [ok |-> TRUE, dir |-> directory, err |-> "none"]
Raised(message) == [ok |-> FALSE, dir |-> <<>>, err |-> message]

\* the product-type branch of _build_directory_path
ProductTypePath(filename, obs_type, subdirectory, subsubdirectory) ==
    IF IsTrr3(filename)
    THEN Returned(DirectoryPath(obs_type, subdirectory, subsubdirectory, DATA))
    ELSE IF IsDdr1(filename)
    THEN Returned(DirectoryPath(obs_type, subdirectory, subsubdirectory, DDR))
    ELSE Raised("no_case_for_storage")

\* the short form tried before the long form
BuildDirectoryPathShortFirst(filename, obs_type) ==
    IF IsShortForm(filename, obs_type)
    THEN ProductTypePath(filename, obs_type,
                         SubdirectoryShort(filename),
                         SubsubdirectoryShort(filename))
    ELSE Raised("no_case_for_storage")

\* FileOrganizer._build_directory_path, every read of self.filename seeing
\* the same value
BuildDirectoryPath(filename, obs_type) ==
    IF IsLongForm(filename, obs_type)
    THEN ProductTypePath(filename, obs_type,
                         SubdirectoryLong(filename),
                         SubsubdirectoryLong(filename))
    ELSE IF IsShortForm(filename, obs_type)
    THEN ProductTypePath(filename, obs_type,
                         SubdirectoryShort(filename),
                         SubsubdirectoryShort(filename))
    ELSE Raised("no_case_for_storage")

\* the directory FileOrganizer.organize computes, before os.makedirs
OrganizePath(filename) ==
    IF IsObsType(filename, Frt) THEN BuildDirectoryPath(filename, Frt)
    ELSE IF IsObsType(filename, Hrl) THEN BuildDirectoryPath(filename, Hrl)
    ELSE IF IsObsType(filename, Hrs) THEN BuildDirectoryPath(filename, Hrs)
    ELSE Raised("only_frt_hrl_hrs")

\* os.makedirs(directory, exist_ok=True): the directory exists afterwards
MakeDirs(existing, directory) == existing \cup {directory}

\* the directories on disk after organize: makedirs runs only on success
OrganizeDirs(existing, filename) ==
    IF OrganizePath(filename).ok
    THEN MakeDirs(existing, OrganizePath(filename).dir)
    ELSE existing

-----------------------------------------------------------------------------
(* SpecClassify: FileOrganizer.organize on one filename.  The filename is  *)
(* a prefix, an observation id, a product suffix and an extension.         *)

NamePrefixes ==
    { <<"F","R","T">>, <<"f","r","t">>, <<"H","R","L">>, <<"H","r","l">>,
      <<"h","r","s">>, <<"X","Y","Z">>, <<"f","r">> }

NameIds ==
    { <<"0","0","0","0","9","8","7","6">>,
      <<"0","0","0","0","A","4","2","5">>,
      <<"0","0","0","1","2","3">>,
      <<"0","0","0","a","b">>,
      <<"0","0","0","0">>,
      <<"0","0","1","2","3","4","5">>,
      <<"1","2","3","4","5">> }

NameSuffixes ==
    { <<"_","0","7","_","I","F","1","2","3","_","T","R","R","3">>,
      <<"_","i","f","_","t","r","r","3">>,
      <<"_","D","E","4","5","_","D","D","R","1">>,
      <<"_","d","e","_","i","f","_","t","r","r","3","_","d","d","r","1">>,
      <<"_","I","F","1","_","D","D","R","1">>,
      <<"_","T","R","R","3">>,
      <<>> }

NameExts ==
    { <<".","I","M","G">>, <<".","L","B","L">>, <<".","l","b","l">>, <<".">>,
      <<>>, <<".","t",".","I","M","G">> }

ClassifyInputs ==
    { p \o i \o s \o e : p \in NamePrefixes, i \in NameIds,
                         s \in NameSuffixes, e \in NameExts }

ClassifyUnused ==
    /\ cname = <<>>
    /\ cresult = Raised("not_called")
    /\ cdone = FALSE
    /\ cdirs = {}

LedgerUnused ==
    /\ ledger = [st |-> "absent", recs |-> <<>>]
    /\ metadata = <<>>
    /\ spc = "idle"
    /\ callBatch = <<>>
    /\ prevBatch = <<>>
    /\ prevSpc = "idle"
    /\ preLedger = [st |-> "absent", recs |-> <<>>]
    /\ nMerges = 0

NoFiles == <<>>

DownloadUnused ==
    /\ urls = <<>>
    /\ max_workers = 1
    /\ files = NoFiles
    /\ dirs = {}
    /\ fo_filename = "None"
    /\ mpc = "idle"
    /\ nscan = 0
    /\ list_to_download = <<>>
    /\ task = <<>>
    /\ futures = {}
    /\ completed_count = 0
    /\ skipped = {}
    /\ fetchCount = 0
    /\ preFiles = NoFiles
    /\ nCalls = 0

NoResponse == [kind |-> "none", items |-> <<>>]

\* no command line: the library is called directly
NoArgv == [ids |-> "absent", output_dir |-> "absent", level |-> "absent",
           max_workers |-> 0]

\* the process has not exited
NotExited == -1

MainUnused ==
    /\ argv = NoArgv
    /\ main_pc = "idle"
    /\ SIGINT = FALSE
    /\ exit_code = NotExited

RunIdle ==
    /\ rpc = "idle"
    /\ response = NoResponse
    /\ nRuns = 0

RunUnused ==
    /\ RunIdle
    /\ MainUnused

InitClassify ==
    /\ LedgerUnused
    /\ DownloadUnused
    /\ RunUnused
    /\ cname \in ClassifyInputs
    /\ cresult = Raised("not_called")
    /\ cdone = FALSE
    /\ cdirs = {}

\* FileOrganizer.filename = cname; FileOrganizer.organize()
Organize ==
    /\ ~cdone
    /\ cresult' = OrganizePath(cname)
    /\ cdirs' = OrganizeDirs(cdirs, cname)
    /\ cdone' = TRUE
    /\ UNCHANGED cname
    /\ UNCHANGED <<lvars, dvars, rvars>>

NextClassify == Organize

SpecClassify == InitClassify /\ [][NextClassify]_vars

-----------------------------------------------------------------------------
(* Catalog data: file URLs and product records.                            *)

NameXyz == <<"X","Y","Z","1","2","3","4","5",".","I","M","G">>

NameHrlDdr ==
    <<"H","R","L","0","0","0","1","2","3","_","D","E","4","5",
      "_","D","D","R","1",".","L","B","L">>

NameFrtTrr3 ==
    <<"F","R","T","0","0","0","0","9","8","7","6","_","0","7",
      "_","I","F","1","2","3","_","T","R","R","3",".","I","M","G">>

NameNotes == <<"n","o","t","e","s",".","t","x","t">>

NameBrowse ==
    <<"H","R","L","0","0","0","1","2","3",".","i","m","g",".","p","n","g">>

HostA == <<"a","/">>
HostB == <<"b","/">>

\* The strings the downloader handles are TLA+ strings; Chars gives the
\* characters of each, on which the string operations compute.
UrlFrt == "a/FRT00009876_07_IF123_TRR3.IMG"
UrlHrl == "a/HRL000123_DE45_DDR1.LBL"
UrlXyz == "a/XYZ12345.IMG"
UrlFrtB == "b/FRT00009876_07_IF123_TRR3.IMG"
UrlNotes == "a/notes.txt"
UrlBrowse == "a/HRL000123.img.png"

Chars ==
    (UrlFrt :> HostA \o NameFrtTrr3) @@
    (UrlHrl :> HostA \o NameHrlDdr) @@
    (UrlXyz :> HostA \o NameXyz) @@
    (UrlFrtB :> HostB \o NameFrtTrr3) @@
    (UrlNotes :> HostA \o NameNotes) @@
    (UrlBrowse :> HostA \o NameBrowse) @@
    ("FRT00009876_07_IF123_TRR3.IMG" :> NameFrtTrr3) @@
    ("HRL000123_DE45_DDR1.LBL" :> NameHrlDdr) @@
    ("XYZ12345.IMG" :> NameXyz) @@
    ("notes.txt" :> NameNotes) @@
    ("HRL000123.img.png" :> NameBrowse)

\* the string whose characters are cs
Str(cs) == CHOOSE s \in DOMAIN Chars : Chars[s] = cs

\* a product object of the catalog response: "Product_files" ->
\* "Product_file" is a list of objects with a "URL", kept as the list of URLs
ProductFrt == [pdsid |-> "FRT00009876", files |-> <<UrlFrt, UrlNotes>>]
ProductHrl == [pdsid |-> "HRL000123", files |-> <<UrlHrl, UrlBrowse>>]
ProductXyz == [pdsid |-> "XYZ12345", files |-> <<UrlXyz>>]

Products == {ProductFrt, ProductHrl, ProductXyz}

-----------------------------------------------------------------------------
(* PlanetaryFetchLib._save_dict.  The ledger file holds a JSON array of    *)
(* product records; records come from response.json(), so json.dump then   *)
(* json.load gives back equal records, and the file is kept as the list.   *)

MaxBatch == 2
MaxMerges == 3

Range(seq) == {seq[i] : i \in 1..Len(seq)}

RECURSIVE SeqsUpTo(_, _)
SeqsUpTo(S, n) ==
    IF n = 0 THEN {<<>>}
    ELSE SeqsUpTo(S, n - 1) \cup
         {Append(q, x) : q \in {r \in SeqsUpTo(S, n - 1) : Len(r) = n - 1}, x \in S}

Batches == SeqsUpTo(Products, MaxBatch)

AbsentFile == [st |-> "absent", recs |-> <<>>]
EmptyFile == [st |-> "empty", recs |-> <<>>]

\* json.dump(metadata, outfile): the file holds the list
JsonFile(recs) == [st |-> "json", recs |-> recs]

LedgerNeverExists == FALSE

\* os.path.exists(file_path)
LedgerExists == ledger.st # "absent"

AppendAlways(existing_metadata, item) == Append(existing_metadata, item)

AppendNever(existing_metadata, item) == existing_metadata

InsertFirstIfNew(existing_metadata, item) ==
    IF item \in Range(existing_metadata)
    THEN existing_metadata
    ELSE <<item>> \o existing_metadata

\* if item not in existing_metadata: existing_metadata.append(item)
AppendIfNew(existing_metadata, item) ==
    IF item \in Range(existing_metadata)
    THEN existing_metadata
    ELSE Append(existing_metadata, item)

\* for item in metadata: ... (the list grows while the loop runs)
RECURSIVE MergeInto(_, _)
MergeInto(existing_metadata, items) ==
    IF items = <<>> THEN existing_metadata
    ELSE MergeInto(AppendIfNew(existing_metadata, Head(items)), Tail(items))

\* _save_dict(batch) is entered (line 140)
EnterSaveDict(batch) ==
    /\ metadata' = batch
    /\ spc' = "load"
    /\ prevBatch' = callBatch
    /\ prevSpc' = spc
    /\ callBatch' = batch
    /\ preLedger' = ledger
    /\ nMerges' = nMerges + 1
    /\ UNCHANGED ledger

\* a caller invokes _save_dict(batch)
CallSaveDict(batch) ==
    /\ spc \in {"idle", "returned", "raised"}
    /\ nMerges < MaxMerges
    /\ EnterSaveDict(batch)
    /\ UNCHANGED <<cvars, dvars, rvars>>

JsonLoadsAnything(file) == TRUE

\* json.load(infile) returns (line 145): the file holds a JSON text
JsonLoads(file) == file.st = "json"

\* lines 142-152: if the file exists, load it and merge metadata into it;
\* json.load of a file that holds no JSON text raises
SaveDictLoad ==
    /\ spc = "load"
    /\ IF ~LedgerExists
       THEN /\ spc' = "open"
            /\ UNCHANGED metadata
       ELSE IF JsonLoads(ledger)
       THEN /\ spc' = "open"
            /\ metadata' = MergeInto(ledger.recs, metadata)
       ELSE /\ spc' = "raised"
            /\ UNCHANGED metadata
    /\ UNCHANGED <<ledger, callBatch, prevBatch, prevSpc, preLedger,
                   nMerges>>
    /\ UNCHANGED <<cvars, dvars, rvars>>

\* line 154: open(file_path, "w") creates or truncates the file
SaveDictOpen ==
    /\ spc = "open"
    /\ ledger' = EmptyFile
    /\ spc' = "dump"
    /\ UNCHANGED <<metadata, callBatch, prevBatch, prevSpc, preLedger,
                   nMerges>>
    /\ UNCHANGED <<cvars, dvars, rvars>>

\* line 156: json.dump(metadata, outfile, indent=5), and the file is closed
SaveDictDump ==
    /\ spc = "dump"
    /\ ledger' = JsonFile(metadata)
    /\ spc' = "returned"
    /\ UNCHANGED <<metadata, callBatch, prevBatch, prevSpc, preLedger,
                   nMerges>>
    /\ UNCHANGED <<cvars, dvars, rvars>>

\* _save_dict is left by an exception raised inside `with open(file_path,
\* "w")`, after open has truncated the file and before json.dump has
\* written the list: an OSError of the write, a KeyboardInterrupt, or the
\* SystemExit of the SIGINT handler in the main thread.  _save_dict has no
\* handler and writes in place (lines 154-156): the file stays empty.  (An
\* exception before line 154 leaves the file as it was, as the failure of
\* json.load in SaveDictLoad does.)
SaveDictInterrupted ==
    /\ spc = "dump"
    /\ spc' = "raised"
    /\ UNCHANGED <<ledger, metadata, callBatch, prevBatch, prevSpc, preLedger,
                   nMerges>>
    /\ UNCHANGED <<cvars, dvars, rvars>>

InitMerge ==
    /\ ClassifyUnused
    /\ LedgerUnused
    /\ DownloadUnused
    /\ RunUnused

NextMerge ==
    \/ \E batch \in Batches : CallSaveDict(batch)
    \/ SaveDictLoad
    \/ SaveDictOpen
    \/ SaveDictDump
    \/ SaveDictInterrupted

SpecMerge == InitMerge /\ [][NextMerge]_vars

-----------------------------------------------------------------------------
(* Files.download: the resume scan, then a ThreadPoolExecutor of           *)
(* _download_url tasks.  Every task uses the one FileOrganizer of the      *)
(* Files object; each read and write of its filename attribute is a step   *)
(* of its own, since the threads may switch between any two of them.       *)

MaxUrls == 2
MaxWorkers == 2
MaxCalls == 2

UrlUniverse == <<UrlFrt, UrlHrl, UrlXyz, UrlFrtB>>

\* the URL lists given to Files: the URLs of the universe at increasing
\* positions, at most MaxUrls of them
UrlLists ==
    { [k \in 1..Len(ix) |-> UrlUniverse[ix[k]]] :
        ix \in { q \in SeqsUpTo(DOMAIN UrlUniverse, MaxUrls) :
                   \A a, b \in 1..Len(q) : a < b => q[a] < q[b] } }

\* url.split("/")[-1]
LastSegment(url) ==
    Str(Slice(Chars[url], RFind(Chars[url], "/"), Len(Chars[url])))

\* The URLs and filenames of the downloader are those of the universe, so
\* every string operation it applies is tabulated once over them.
ObsTypes == {Frt, Hrl, Hrs}
KnownUrls == Range(UrlUniverse) \cup {UrlBrowse}
LastSegmentOf == [u \in KnownUrls |-> LastSegment(u)]
FileNames == {LastSegmentOf[u] : u \in KnownUrls}
IsObsTypeOf ==
    [n \in FileNames |-> [o \in ObsTypes |-> IsObsType(Chars[n], o)]]
IsLongFormOf ==
    [n \in FileNames |-> [o \in ObsTypes |-> IsLongForm(Chars[n], o)]]
IsShortFormOf ==
    [n \in FileNames |-> [o \in ObsTypes |-> IsShortForm(Chars[n], o)]]
SubdirectoryLongOf == [n \in FileNames |-> SubdirectoryLong(Chars[n])]
SubsubdirectoryLongOf == [n \in FileNames |-> SubsubdirectoryLong(Chars[n])]
SubdirectoryShortOf == [n \in FileNames |-> SubdirectoryShort(Chars[n])]
SubsubdirectoryShortOf == [n \in FileNames |-> SubsubdirectoryShort(Chars[n])]
IsTrr3Of == [n \in FileNames |-> IsTrr3(Chars[n])]
IsDdr1Of == [n \in FileNames |-> IsDdr1(Chars[n])]
OrganizePathOf == [n \in FileNames |-> OrganizePath(Chars[n])]

\* response.content for requests.get(url): every URL has a body of its own
Body(url) == url

\* os.path.join(directory, filename)
JoinPath(directory, filename) == <<directory, filename>>

PathAlwaysExists(filepath) == TRUE

PathNeverExists(filepath) == FALSE

\* os.path.exists(filepath)
PathExists(filepath) == filepath \in DOMAIN files

\* the existence test of the resume scan (line 340)
ScanTargetExists(filepath) == PathExists(filepath)

\* the locals of a _download_url call; response and filename follow from url
NewTask(url) ==
    [ pc |-> "queued", url |-> url, obs_type |-> <<>>, long |-> FALSE,
      subdirectory |-> <<>>, subsubdirectory |-> <<>>, filepath |-> <<>>,
      exc |-> "none" ]

\* a call that has ended: its locals are gone; exc is the exception stored
\* in its future, "none" after a return
EndedTask(r, exception) ==
    [ NewTask(r.url) EXCEPT
        !.pc = IF exception = "none" THEN "done" ELSE "raised",
        !.exc = exception ]

Tasks == 1..Len(task)

\* the tasks a worker thread is executing
RunningTasks == {t \in Tasks : task[t].pc \notin {"queued", "done", "raised"}}

\* the tasks whose requests.get is in flight
InFlight == {t \in Tasks : task[t].pc = "get"}

AlwaysAvailable == TRUE

\* ThreadPoolExecutor(max_workers=self.max_workers): at most max_workers
\* threads, each running one work item at a time
WorkerAvailable == Cardinality(RunningTasks) < max_workers

mainvars == <<mpc, nscan, list_to_download, futures, completed_count,
              skipped, preFiles, nCalls>>

\* Files.download is entered (lines 357-360)
EnterDownload ==
    /\ mpc' = "scan"
    /\ nscan' = 0
    /\ list_to_download' = <<>>
    /\ task' = <<>>
    /\ futures' = {}
    /\ completed_count' = 0
    /\ skipped' = {}
    /\ fetchCount' = 0
    /\ preFiles' = files
    /\ nCalls' = nCalls + 1
    /\ UNCHANGED <<files, dirs>>

\* a caller invokes download on the Files object
CallDownload ==
    /\ mpc \in {"idle", "returned"}
    /\ nCalls < MaxCalls
    /\ EnterDownload
    /\ UNCHANGED <<urls, max_workers, fo_filename>>
    /\ UNCHANGED <<cvars, lvars, rvars>>

\* one iteration of the loop of _url_to_download (lines 333-348); no task
\* runs yet, so organize reads the filename it has just been given
ScanUrl ==
    /\ mpc = "scan"
    /\ nscan < Len(urls)
    /\ LET url == urls[nscan + 1]
           filename == LastSegmentOf[url]
           organized == OrganizePathOf[filename]
       IN  /\ fo_filename' = filename
           /\ dirs' = IF organized.ok THEN MakeDirs(dirs, organized.dir) ELSE dirs
           /\ IF ~organized.ok
              THEN UNCHANGED <<list_to_download, skipped>>
              ELSE IF ScanTargetExists(JoinPath(organized.dir, filename))
              THEN /\ skipped' = skipped \cup {url}
                   /\ UNCHANGED list_to_download
              ELSE /\ list_to_download' = Append(list_to_download, url)
                   /\ UNCHANGED skipped
    /\ nscan' = nscan + 1
    /\ UNCHANGED <<urls, max_workers, files, mpc, task, futures,
                   completed_count, fetchCount, preFiles, nCalls>>
    /\ UNCHANGED <<cvars, lvars, rvars>>

\* _url_to_download returns; download creates the executor (lines 350-364)
ScanDone ==
    /\ mpc = "scan"
    /\ nscan = Len(urls)
    /\ mpc' = "submit"
    /\ UNCHANGED <<urls, max_workers, files, dirs, fo_filename, nscan,
                   list_to_download, task, futures, completed_count, skipped,
                   fetchCount, preFiles, nCalls>>
    /\ UNCHANGED <<cvars, lvars, rvars>>

\* executor.submit(self._download_url, url) for the next URL of the work
\* list (lines 365-372); the callback added to the future writes to a list
\* of its own and changes nothing here
Submit ==
    /\ mpc = "submit"
    /\ Len(task) < Len(list_to_download)
    /\ task' = Append(task, NewTask(list_to_download[Len(task) + 1]))
    /\ futures' = futures \cup {Len(task) + 1}
    /\ UNCHANGED <<urls, max_workers, files, dirs, fo_filename, mpc, nscan,
                   list_to_download, completed_count, skipped, fetchCount,
                   preFiles, nCalls>>
    /\ UNCHANGED <<cvars, lvars, rvars>>

\* the submit loop ends and the wait loop begins (line 380)
SubmitDone ==
    /\ mpc = "submit"
    /\ Len(task) = Len(list_to_download)
    /\ mpc' = "wait"
    /\ UNCHANGED <<urls, max_workers, files, dirs, fo_filename, nscan,
                   list_to_download, task, futures, completed_count, skipped,
                   fetchCount, preFiles, nCalls>>
    /\ UNCHANGED <<cvars, lvars, rvars>>

FutureAlwaysDone(t) == TRUE

\* future.done() (line 382): the call has returned or raised
FutureDone(t) == task[t].pc \in {"done", "raised"}

\* the wait loop finds a done future, removes it and counts it (381-387)
Reap(t) ==
    /\ mpc = "wait"
    /\ t \in futures
    /\ FutureDone(t)
    /\ futures' = futures \ {t}
    /\ completed_count' = completed_count + 1
    /\ UNCHANGED <<urls, max_workers, files, dirs, fo_filename, mpc, nscan,
                   list_to_download, task, skipped, fetchCount, preFiles,
                   nCalls>>
    /\ UNCHANGED <<cvars, lvars, rvars>>

\* no future is left: the total is logged and download returns (389-392)
LogTotal ==
    /\ mpc = "wait"
    /\ futures = {}
    /\ mpc' = "returned"
    /\ UNCHANGED <<urls, max_workers, files, dirs, fo_filename, nscan,
                   list_to_download, task, futures, completed_count, skipped,
                   fetchCount, preFiles, nCalls>>
    /\ UNCHANGED <<cvars, lvars, rvars>>

\* what a step of a task leaves alone besides task and what it names
TaskFrame ==
    /\ UNCHANGED <<urls, max_workers>>
    /\ UNCHANGED mainvars
    /\ UNCHANGED <<cvars, lvars, rvars>>

\* a worker thread takes the oldest queued work item and calls
\* _download_url, whose first act is requests.get(url) (lines 307-308)
StartTask(t) ==
    /\ t \in Tasks
    /\ task[t].pc = "queued"
    /\ \A s \in 1..(t - 1) : task[s].pc # "queued"
    /\ WorkerAvailable
    /\ task' = [task EXCEPT ![t].pc = "get"]
    /\ fetchCount' = fetchCount + 1
    /\ UNCHANGED <<files, dirs, fo_filename>>
    /\ TaskFrame

\* requests.get returns the response (line 308); filename is the last
\* segment of the URL (line 309) and becomes the organizer's filename
\* (line 310)
FetchDone(t) ==
    /\ t \in Tasks
    /\ task[t].pc = "get"
    /\ fo_filename' = LastSegmentOf[task[t].url]
    /\ task' = [task EXCEPT ![t].pc = "is_frt"]
    /\ UNCHANGED <<files, dirs, fetchCount>>
    /\ TaskFrame

\* requests.get raises (the connection fails): the task ends there
FetchFail(t) ==
    /\ t \in Tasks
    /\ task[t].pc = "get"
    /\ task' = [task EXCEPT ![t] = EndedTask(task[t], "RequestException")]
    /\ UNCHANGED <<files, dirs, fo_filename, fetchCount>>
    /\ TaskFrame

\* the observation type each test of organize asks for, and the test after
ObsTypeAt(pc) == IF pc = "is_frt" THEN Frt ELSE IF pc = "is_hrl" THEN Hrl ELSE Hrs
ObsTestAfter(pc) == IF pc = "is_frt" THEN "is_hrl" ELSE "is_hrs"

\* one test of organize (lines 511, 513, 515), else the raise of line 518;
\* organize is called at line 311, outside the try of _download_url
OrganizeTest(t) ==
    /\ t \in Tasks
    /\ task[t].pc \in {"is_frt", "is_hrl", "is_hrs"}
    /\ task' =
         IF IsObsTypeOf[fo_filename][ObsTypeAt(task[t].pc)]
         THEN [task EXCEPT ![t].pc = "is_long",
                           ![t].obs_type = ObsTypeAt(task[t].pc)]
         ELSE IF task[t].pc = "is_hrs"
         THEN [task EXCEPT ![t] = EndedTask(task[t], "NotImplementedError")]
         ELSE [task EXCEPT ![t].pc = ObsTestAfter(task[t].pc)]
    /\ UNCHANGED <<files, dirs, fo_filename, fetchCount>>
    /\ TaskFrame

\* _build_directory_path: startswith(f"{obs_type}0000") (line 454)
TestLongForm(t) ==
    /\ t \in Tasks
    /\ task[t].pc = "is_long"
    /\ task' =
         IF IsLongFormOf[fo_filename][task[t].obs_type]
         THEN [task EXCEPT ![t].pc = "sub", ![t].long = TRUE]
         ELSE [task EXCEPT ![t].pc = "is_short"]
    /\ UNCHANGED <<files, dirs, fo_filename, fetchCount>>
    /\ TaskFrame

\* startswith(f"{obs_type}000") (line 475), else the raise of line 497
TestShortForm(t) ==
    /\ t \in Tasks
    /\ task[t].pc = "is_short"
    /\ task' =
         IF IsShortFormOf[fo_filename][task[t].obs_type]
         THEN [task EXCEPT ![t].pc = "sub", ![t].long = FALSE]
         ELSE [task EXCEPT ![t] = EndedTask(task[t], "NotImplementedError")]
    /\ UNCHANGED <<files, dirs, fo_filename, fetchCount>>
    /\ TaskFrame

\* subdirectory = os.path.splitext(self.filename)[0][7:9] or [6:9]
\* (lines 455, 476)
ReadSubdirectory(t) ==
    /\ t \in Tasks
    /\ task[t].pc = "sub"
    /\ task' = [task EXCEPT ![t].pc = "subsub",
                            ![t].subdirectory =
                                IF task[t].long
                                THEN SubdirectoryLongOf[fo_filename]
                                ELSE SubdirectoryShortOf[fo_filename]]
    /\ UNCHANGED <<files, dirs, fo_filename, fetchCount>>
    /\ TaskFrame

\* subsubdirectory = os.path.splitext(self.filename)[0][7:11] or [6:11]
\* (lines 456, 477)
ReadSubsubdirectory(t) ==
    /\ t \in Tasks
    /\ task[t].pc = "subsub"
    /\ task' = [task EXCEPT ![t].pc = "is_trr3",
                            ![t].subsubdirectory =
                                IF task[t].long
                                THEN SubsubdirectoryLongOf[fo_filename]
                                ELSE SubsubdirectoryShortOf[fo_filename]]
    /\ UNCHANGED <<files, dirs, fo_filename, fetchCount>>
    /\ TaskFrame

\* _build_directory_path returns the directory; organize creates it and
\* returns it, and filepath = os.path.join(directory, filename) (line 311)
DirectoryBuilt(r, kind) ==
    [ NewTask(r.url) EXCEPT
        !.pc = "exists",
        !.filepath = JoinPath(DirectoryPath(r.obs_type, r.subdirectory,
                                            r.subsubdirectory, kind),
                              LastSegmentOf[r.url]) ]

\* fnmatch(self.filename.lower(), "*_if*_trr3.*") (lines 457, 478); on a
\* match os.makedirs(directory, exist_ok=True) (line 521)
TestTrr3(t) ==
    /\ t \in Tasks
    /\ task[t].pc = "is_trr3"
    /\ IF IsTrr3Of[fo_filename]
       THEN /\ task' = [task EXCEPT ![t] = DirectoryBuilt(task[t], DATA)]
            /\ dirs' = MakeDirs(dirs, task'[t].filepath[1])
       ELSE /\ task' = [task EXCEPT ![t].pc = "is_ddr1"]
            /\ UNCHANGED dirs
    /\ UNCHANGED <<files, fo_filename, fetchCount>>
    /\ TaskFrame

\* fnmatch(self.filename.lower(), "*_de*_ddr1.*") (lines 464, 485); on a
\* match os.makedirs (line 521), else the raise of lines 472, 493
TestDdr1(t) ==
    /\ t \in Tasks
    /\ task[t].pc = "is_ddr1"
    /\ IF IsDdr1Of[fo_filename]
       THEN /\ task' = [task EXCEPT ![t] = DirectoryBuilt(task[t], DDR)]
            /\ dirs' = MakeDirs(dirs, task'[t].filepath[1])
       ELSE /\ task' = [task EXCEPT
                          ![t] = EndedTask(task[t], "NotImplementedError")]
            /\ UNCHANGED dirs
    /\ UNCHANGED <<files, fo_filename, fetchCount>>
    /\ TaskFrame

\* if os.path.exists(filepath): skip and return (lines 313-316, 321)
TaskCheckExists(t) ==
    /\ t \in Tasks
    /\ task[t].pc = "exists"
    /\ task' = IF PathExists(task[t].filepath)
               THEN [task EXCEPT ![t] = EndedTask(task[t], "none")]
               ELSE [task EXCEPT ![t].pc = "open"]
    /\ UNCHANGED <<files, dirs, fo_filename, fetchCount>>
    /\ TaskFrame

\* open(filepath, "wb") creates the file, or truncates it (line 318)
OpenFile(t) ==
    /\ t \in Tasks
    /\ task[t].pc = "open"
    /\ files' = (task[t].filepath :> [src |-> Body(task[t].url), full |-> FALSE])
                    @@ files
    /\ task' = [task EXCEPT ![t].pc = "write"]
    /\ UNCHANGED <<dirs, fo_filename, fetchCount>>
    /\ TaskFrame

\* file.write(response.content), the close of the with block and the
\* return (lines 319-321)
WriteFile(t) ==
    /\ t \in Tasks
    /\ task[t].pc = "write"
    /\ files' = (task[t].filepath :> [src |-> Body(task[t].url), full |-> TRUE])
                    @@ files
    /\ task' = [task EXCEPT ![t] = EndedTask(task[t], "none")]
    /\ UNCHANGED <<dirs, fo_filename, fetchCount>>
    /\ TaskFrame

\* file.write raises OSError (the disk is full, the device fails): the with
\* block closes the file as it is, and only NotImplementedError is caught
WriteFail(t) ==
    /\ t \in Tasks
    /\ task[t].pc = "write"
    /\ task' = [task EXCEPT ![t] = EndedTask(task[t], "OSError")]
    /\ UNCHANGED <<files, dirs, fo_filename, fetchCount>>
    /\ TaskFrame

InitDownload ==
    /\ ClassifyUnused
    /\ LedgerUnused
    /\ RunUnused
    /\ urls \in UrlLists
    /\ max_workers \in 1..MaxWorkers
    /\ files = NoFiles
    /\ dirs = {}
    /\ fo_filename = "None"
    /\ mpc = "idle"
    /\ nscan = 0
    /\ list_to_download = <<>>
    /\ task = <<>>
    /\ futures = {}
    /\ completed_count = 0
    /\ skipped = {}
    /\ fetchCount = 0
    /\ preFiles = NoFiles
    /\ nCalls = 0

TaskStep(t) ==
    \/ StartTask(t)
    \/ FetchDone(t)
    \/ FetchFail(t)
    \/ OrganizeTest(t)
    \/ TestLongForm(t)
    \/ TestShortForm(t)
    \/ ReadSubdirectory(t)
    \/ ReadSubsubdirectory(t)
    \/ TestTrr3(t)
    \/ TestDdr1(t)
    \/ TaskCheckExists(t)
    \/ OpenFile(t)
    \/ WriteFile(t)
    \/ WriteFail(t)

DownloadStep ==
    \/ CallDownload
    \/ ScanUrl
    \/ ScanDone
    \/ Submit
    \/ SubmitDone
    \/ \E t \in Tasks : Reap(t)
    \/ LogTotal
    \/ \E t \in Tasks : TaskStep(t)

NextDownload == DownloadStep

SpecDownload == InitDownload /\ [][NextDownload]_vars

-----------------------------------------------------------------------------
(* PdsRequest.parse_response and PlanetaryFetchLib.run.                    *)

MaxRuns == 2

\* needle in haystack
Contains(haystack, needle) ==
    \E k \in 0..(Len(haystack) - Len(needle)) :
        \A i \in 1..Len(needle) : haystack[k + i] = needle[i]

\* ".lbl" in url or ".img" in url, the case kept
IsLblOrImgCaseKept(url) ==
    \/ Contains(Chars[url], <<".","l","b","l">>)
    \/ Contains(Chars[url], <<".","i","m","g">>)

\* ".lbl" in url.lower() or ".img" in url.lower() (line 239)
IsLblOrImg(url) ==
    \/ Contains(Lower(Chars[url]), <<".","l","b","l">>)
    \/ Contains(Lower(Chars[url]), <<".","i","m","g">>)

\* the URLs of one product that pass the filter, in order (lines 236-240)
RECURSIVE ProductUrls(_)
ProductUrls(product_files) ==
    IF product_files = <<>> THEN <<>>
    ELSE (IF IsLblOrImg(Head(product_files)) THEN <<Head(product_files)>> ELSE <<>>)
         \o ProductUrls(Tail(product_files))

\* the URLs of all products, in order (lines 232-240)
RECURSIVE AllUrls(_)
AllUrls(products) ==
    IF products = <<>> THEN <<>>
    ELSE ProductUrls(Head(products).files) \o AllUrls(Tail(products))

\* parse_response without the test of line 227
ParseResponseNoSentinel(rjson) ==
    [raised |-> "none", metadata |-> rjson.items, urls |-> AllUrls(rjson.items)]

\* parse_response.  rjson["ODEResults"]["Products"] is the string
\* "No Products Found" (kind "none"), or holds under "Product" an array of
\* products (kind "array") or one product object (kind "object"): the loop
\* over a product object runs over its keys, and indexing a key by
\* "Product_files" raises TypeError
ParseResponse(rjson) ==
    IF rjson.kind = "none"
    THEN [raised |-> "NoProductFoundException", metadata |-> <<>>, urls |-> <<>>]
    ELSE IF rjson.kind = "object"
    THEN [raised |-> "TypeError", metadata |-> <<>>, urls |-> <<>>]
    ELSE [raised |-> "none", metadata |-> rjson.items, urls |-> AllUrls(rjson.items)]

\* what the catalog may answer
Responses ==
    { NoResponse,
      [kind |-> "array", items |-> <<ProductFrt>>],
      [kind |-> "array", items |-> <<ProductHrl>>],
      [kind |-> "array", items |-> <<ProductFrt, ProductHrl>>],
      [kind |-> "array", items |-> <<ProductFrt, ProductFrt>>],
      [kind |-> "array", items |-> <<ProductXyz>>],
      [kind |-> "object", items |-> <<ProductFrt>>] }

\* run is called: pds_request.query() returns the catalog's answer
\* (lines 164-165)
RunQuery ==
    /\ rpc \in {"idle", "returned", "raised"}
    /\ nRuns < MaxRuns
    /\ response' \in Responses
    /\ rpc' = "parse"
    /\ nRuns' = nRuns + 1
    /\ UNCHANGED clivars
    /\ UNCHANGED <<cvars, lvars, dvars>>

\* parse_response raises (lines 167, 176-177): NoProductFoundException is
\* logged and run returns; any other exception leaves run
RunParseRaises ==
    /\ rpc = "parse"
    /\ ParseResponse(response).raised # "none"
    /\ rpc' = IF ParseResponse(response).raised = "NoProductFoundException"
              THEN "returned" ELSE "raised"
    /\ UNCHANGED <<response, nRuns>>
    /\ UNCHANGED clivars
    /\ UNCHANGED <<cvars, lvars, dvars>>

\* parse_response returns, Files is built with a FileOrganizer of its own,
\* and _save_dict(metadata) is entered (lines 167-174)
RunParse ==
    /\ rpc = "parse"
    /\ ParseResponse(response).raised = "none"
    /\ urls' = ParseResponse(response).urls
    /\ fo_filename' = "None"
    /\ EnterSaveDict(ParseResponse(response).metadata)
    /\ rpc' = "save"
    /\ UNCHANGED <<response, nRuns, cvars>>
    /\ UNCHANGED clivars
    /\ UNCHANGED <<max_workers, files, dirs, mpc, nscan, list_to_download,
                   task, futures, completed_count, skipped, fetchCount,
                   preFiles, nCalls>>

\* _save_dict has raised: run has no handler for it (lines 176-177 catch
\* NoProductFoundException only) and the exception leaves run
RunSaveRaises ==
    /\ rpc = "save"
    /\ spc = "raised"
    /\ rpc' = "raised"
    /\ UNCHANGED <<response, nRuns>>
    /\ UNCHANGED clivars
    /\ UNCHANGED <<cvars, lvars, dvars>>

\* _save_dict has returned: files.download() is entered (line 175)
RunDownload ==
    /\ rpc = "save"
    /\ spc = "returned"
    /\ EnterDownload
    /\ rpc' = "download"
    /\ UNCHANGED <<urls, max_workers, fo_filename>>
    /\ UNCHANGED <<response, nRuns, cvars, lvars>>
    /\ UNCHANGED clivars

\* download has returned: run returns
RunReturn ==
    /\ rpc = "download"
    /\ mpc = "returned"
    /\ rpc' = "returned"
    /\ UNCHANGED <<response, nRuns>>
    /\ UNCHANGED clivars
    /\ UNCHANGED <<cvars, lvars, dvars>>

InitRun ==
    /\ ClassifyUnused
    /\ LedgerUnused
    /\ RunUnused
    /\ urls = <<>>
    /\ max_workers \in 1..MaxWorkers
    /\ files = NoFiles
    /\ dirs = {}
    /\ fo_filename = "None"
    /\ mpc = "idle"
    /\ nscan = 0
    /\ list_to_download = <<>>
    /\ task = <<>>
    /\ futures = {}
    /\ completed_count = 0
    /\ skipped = {}
    /\ fetchCount = 0
    /\ preFiles = NoFiles
    /\ nCalls = 0

NextRun ==
    \/ RunQuery
    \/ RunParseRaises
    \/ RunParse
    \/ SaveDictLoad
    \/ SaveDictOpen
    \/ SaveDictDump
    \/ SaveDictInterrupted
    \/ RunSaveRaises
    \/ RunDownload
    \/ RunReturn
    \/ ScanUrl
    \/ ScanDone
    \/ Submit
    \/ SubmitDone
    \/ \E t \in Tasks : Reap(t)
    \/ LogTotal
    \/ \E t \in Tasks : TaskStep(t)

Spec == InitRun /\ [][NextRun]_vars

-----------------------------------------------------------------------------
(* SpecMain: __main__.run, the command-line entry point.                   *)

\* the choices of --level (lines 113-120)
LevelChoices == {"INFO", "DEBUG", "WARNING", "ERROR", "CRITICAL", "TRACE"}

\* the default of --max_workers (line 100); 0 in argv stands for no option
DefaultMaxWorkers == 3

\* the command lines given: each option absent or with a value
Argvs ==
    [ ids : {"absent", "FRT00009876", "HRL000123"},
      output_dir : {"absent", "out"},
      level : LevelChoices \cup {"absent", "VERBOSE"},
      max_workers : 0..MaxWorkers ]

\* parser.parse_args() accepts: the required options are there and --level
\* is one of its choices
ArgvAccepted(a) ==
    /\ a.ids # "absent"
    /\ a.output_dir # "absent"
    /\ a.level \in LevelChoices \cup {"absent"}

\* the keyword arguments __main__.run gives to PlanetaryFetchLib
\* (lines 135-139)
MainKwargs == {"level", "max_workers"}

\* the keys PlanetaryFetchLib.__init__ reads from kwargs (lines 67-69)
InitKwargsRead == {"level", "max_workers", "disable_tqdm"}

\* kwargs[key] raises KeyError for a key that was not given
InitRaisesKeyError(kwargs) == ~(InitKwargsRead \subseteq kwargs)

\* sys.exit(0) (line 141), sys.exit(1) (line 144), sys.exit(2) in the
\* signal handler (line 60) and in argparse's parser.error
ExitSuccess == 0
ExitFailure == 1
ExitInterrupt == 2
ExitUsage == 2

Running == main_pc # "idle" /\ exit_code = NotExited

\* parse_cli() (line 133): argparse returns the options, or prints the
\* usage and raises SystemExit(2), which `except Exception` lets through
ParseCli ==
    /\ Running
    /\ main_pc = "parse_cli"
    /\ IF ArgvAccepted(argv)
       THEN /\ main_pc' = "init"
            /\ UNCHANGED exit_code
       ELSE /\ exit_code' = ExitUsage
            /\ UNCHANGED main_pc
    /\ UNCHANGED <<argv, SIGINT, rpc, response, nRuns>>
    /\ UNCHANGED <<cvars, lvars, dvars>>

\* PlanetaryFetchLib(options_cli.output_dir, level=..., max_workers=...)
\* (lines 135-139): __init__ reads its keyword arguments (lines 67-69)
MainInit ==
    /\ Running
    /\ main_pc = "init"
    /\ main_pc' = IF InitRaisesKeyError(MainKwargs) THEN "except" ELSE "run"
    /\ UNCHANGED <<argv, SIGINT, exit_code, rpc, response, nRuns>>
    /\ UNCHANGED <<cvars, lvars, dvars>>

\* except Exception: logging.exception(error); sys.exit(1) (lines 142-144)
MainExcept ==
    /\ Running
    /\ main_pc = "except"
    /\ exit_code' = ExitFailure
    /\ UNCHANGED <<argv, main_pc, SIGINT, rpc, response, nRuns>>
    /\ UNCHANGED <<cvars, lvars, dvars>>

\* SIGINT arrives: signal_handler sets the flag and calls sys.exit(2)
\* (lines 58-60), which `except Exception` lets through
SignalHandler ==
    /\ Running
    /\ SIGINT' = TRUE
    /\ exit_code' = ExitInterrupt
    /\ UNCHANGED <<argv, main_pc, rpc, response, nRuns>>
    /\ UNCHANGED <<cvars, lvars, dvars>>

\* the process starts: the handler is installed (lines 130-131)
InitMain ==
    /\ ClassifyUnused
    /\ LedgerUnused
    /\ DownloadUnused
    /\ RunIdle
    /\ argv \in Argvs
    /\ main_pc = "parse_cli"
    /\ SIGINT = FALSE
    /\ exit_code = NotExited

NextMain ==
    \/ ParseCli
    \/ MainInit
    \/ MainExcept
    \/ SignalHandler

SpecMain == InitMain /\ [][NextMain]_vars

-----------------------------------------------------------------------------
(* The rule table of the classifier, written as an ordered table whose     *)
(* first matching row wins, with the globs as substring conditions.        *)

\* w occurs in s at position k
RefOccursAt(s, w, k) ==
    /\ k + Len(w) - 1 <= Len(s)
    /\ \A i \in 1..Len(w) : s[k + i - 1] = w[i]

\* s matches *w1*w2*: w1 occurs, and w2 occurs after the end of w1
RefTwoWords(s, w1, w2) ==
    \E a \in 1..Len(s), b \in 1..Len(s) :
        /\ RefOccursAt(s, w1, a)
        /\ RefOccursAt(s, w2, b)
        /\ b >= a + Len(w1)

\* the filename with its extension (from the last dot on) stripped
RefStem(f) ==
    IF \E k \in 1..Len(f) : f[k] = "."
    THEN SubSeq(f, 1, (CHOOSE k \in 1..Len(f) :
                          f[k] = "." /\ \A j \in (k+1)..Len(f) : f[j] # ".") - 1)
    ELSE f

\* the characters [from:to] of the stem, as far as the stem reaches
RefChars(stem, from, to) ==
    SubSeq(stem, from + 1, IF to < Len(stem) THEN to ELSE Len(stem))

RefZeros(n) == [i \in 1..n |-> "0"]

\* rows: the observation-id form (its zeros and slice offset) and the glob
RefRows ==
    << [zeros |-> 4, from |-> 7, w1 |-> <<"_","i","f">>,
        w2 |-> <<"_","t","r","r","3",".">>, kind |-> DATA],
       [zeros |-> 4, from |-> 7, w1 |-> <<"_","d","e">>,
        w2 |-> <<"_","d","d","r","1",".">>, kind |-> DDR],
       [zeros |-> 3, from |-> 6, w1 |-> <<"_","i","f">>,
        w2 |-> <<"_","t","r","r","3",".">>, kind |-> DATA],
       [zeros |-> 3, from |-> 6, w1 |-> <<"_","d","e">>,
        w2 |-> <<"_","d","d","r","1",".">>, kind |-> DDR] >>

RefPrefixes == {Frt, Hrl, Hrs}

RefRowMatches(f, prefix, row) ==
    /\ StartsWith(Lower(f), prefix \o RefZeros(row.zeros))
    /\ RefTwoWords(Lower(f), row.w1, row.w2)

\* a long-form name is read with the long-form offsets only
RefRowApplies(f, prefix, row) ==
    /\ RefRowMatches(f, prefix, row)
    /\ row.zeros = 3 => ~StartsWith(Lower(f), prefix \o RefZeros(4))

RefClassify(f) ==
    IF ~\E p \in RefPrefixes : StartsWith(Lower(f), p)
    THEN [ok |-> FALSE, dir |-> <<>>, why |-> "UnknownInstrument"]
    ELSE LET p == CHOOSE q \in RefPrefixes : StartsWith(Lower(f), q)
             hits == {n \in DOMAIN RefRows : RefRowApplies(f, p, RefRows[n])}
         IN  IF hits = {}
             THEN [ok |-> FALSE, dir |-> <<>>, why |-> "NoRow"]
             ELSE LET row == RefRows[CHOOSE n \in hits : \A m \in hits : n <= m]
                  IN  [ok |-> TRUE,
                       dir |-> << BaseDir,
                                  Upper(p \o RefChars(RefStem(f), row.from, 9)),
                                  Upper(p \o RefChars(RefStem(f), row.from, 11)),
                                  row.kind >>,
                       why |-> "none"]

\* C9: for every filename, organize returns the directory the rule table of
\* spec 4.3 gives (base/PREFIX+sub/PREFIX+subsub/type, uppercased, long form
\* before short form, DATA for *_if*_trr3.*, DDR for *_de*_ddr1.*) and fails
\* where the table fails; XYZ12345.IMG fails as an unknown instrument and
\* HRL000123_DE45_DDR1.LBL gives DDR.
C9_OrganizeIsRuleTable ==
    cdone =>
        /\ cresult.ok = RefClassify(cname).ok
        /\ cresult.dir = RefClassify(cname).dir
        /\ (cresult.err = "only_frt_hrl_hrs")
              <=> (RefClassify(cname).why = "UnknownInstrument")
        /\ cname = NameXyz => cresult = Raised("only_frt_hrl_hrs")
        /\ cname = NameHrlDdr => (cresult.ok /\ cresult.dir[4] = DDR)

C9_Witness ==
    /\ cdone
    /\ cname = NameHrlDdr
    /\ cresult.ok
    /\ cresult.dir[4] = DDR

\* C10 as stated: FRT00009876_07_IF123_TRR3.IMG resolves to the segments
\* FRT00, FRT0000, DATA under the base directory.
C10_Original ==
    (cdone /\ cname = NameFrtTrr3) =>
        cresult = Returned(<< BaseDir,
                              <<"F","R","T","0","0">>,
                              <<"F","R","T","0","0","0","0">>,
                              DATA >>)

\* C10 amended: FRT00009876_07_IF123_TRR3.IMG resolves to the segments
\* FRT98, FRT9876, DATA under the base directory (stem characters [7:9] and
\* [7:11] are "98" and "9876").
C10_FrtSegments ==
    (cdone /\ cname = NameFrtTrr3) =>
        cresult = Returned(<< BaseDir,
                              <<"F","R","T","9","8">>,
                              <<"F","R","T","9","8","7","6">>,
                              DATA >>)

C10_Witness ==
    /\ cdone
    /\ cname = NameFrtTrr3
    /\ cresult.ok

-----------------------------------------------------------------------------
(* Claims about the ledger.                                                *)

NoRepeat(seq) == \A i, j \in 1..Len(seq) : seq[i] = seq[j] => i = j

Disjoint(batch, recs) == Range(batch) \cap Range(recs) = {}

\* C6: after any sequence of merges that starts from an absent ledger file,
\* the persisted ledger never holds two structurally-equal records.
C6_LedgerHasNoDuplicates ==
    ledger.st = "json" => NoRepeat(ledger.recs)

\* C7 as stated: merging a batch disjoint from the ledger's records grows
\* the ledger by exactly len(batch), repeated records included, whether or
\* not the ledger file existed.
C7_Original ==
    (spc = "returned" /\ Disjoint(callBatch, preLedger.recs)) =>
        Len(ledger.recs) = Len(preLedger.recs) + Len(callBatch)

\* C7 amended: merging a batch disjoint from the ledger's records grows the
\* ledger by the number of distinct records of the batch when the ledger
\* file existed (len(batch) when the batch repeats no record), and by
\* len(batch) when the file was absent.
C7_DisjointBatchGrowth ==
    (spc = "returned" /\ Disjoint(callBatch, preLedger.recs)) =>
        Len(ledger.recs) =
            Len(preLedger.recs) +
            (IF preLedger.st = "json"
             THEN Cardinality(Range(callBatch))
             ELSE Len(callBatch))

C7_Witness ==
    /\ spc = "returned"
    /\ preLedger.st = "json"
    /\ preLedger.recs # <<>>
    /\ Disjoint(callBatch, preLedger.recs)
    /\ Len(callBatch) = 2
    /\ Len(ledger.recs) = Len(preLedger.recs) + 2

\* C8: merging a batch and then the same batch again leaves the ledger after
\* the second merge identical to the ledger after the first, whatever the
\* ledger was before (an absent file included).
C8_RepeatedBatchIsIdempotent ==
    (/\ spc = "returned"
     /\ nMerges >= 2
     /\ prevSpc = "returned"
     /\ callBatch = prevBatch) =>
        (ledger = preLedger /\ Len(ledger.recs) = Len(preLedger.recs))

C8_Witness ==
    /\ spc = "returned"
    /\ nMerges = 2
    /\ prevSpc = "returned"
    /\ callBatch = prevBatch
    /\ Len(callBatch) = 2
    /\ callBatch[1] = callBatch[2]
    /\ ledger = JsonFile(callBatch)

-----------------------------------------------------------------------------
(* Claims about Files.download.                                            *)

\* classify(filename(u)) and filename(u) for every URL of the universe
Classified == [u \in KnownUrls |-> OrganizePathOf[LastSegmentOf[u]]]
NameOf == LastSegmentOf

\* the path classify(filename(u))/filename(u) of a URL whose name classifies
TargetPath(url) == JoinPath(Classified[url].dir, NameOf[url])

DistinctNames(list) ==
    \A i, j \in 1..Len(list) : NameOf[list[i]] = NameOf[list[j]] => i = j

NoFetchFailed == \A t \in Tasks : task[t].exc # "RequestException"

\* C1: with max_workers >= 2, at least two queued URLs of different
\* filenames and every fetch succeeding, in every interleaving each task
\* writes the body of its URL to classify(filename(u))/filename(u) and to no
\* other directory, and no task fails classification.
C1_TasksKeepTheirOwnPath ==
    (/\ max_workers >= 2
     /\ Len(list_to_download) >= 2
     /\ DistinctNames(list_to_download)
     /\ NoFetchFailed) =>
        \A t \in Tasks :
            /\ task[t].exc # "NotImplementedError"
            /\ task[t].filepath # <<>> =>
                   task[t].filepath = TargetPath(task[t].url)
            /\ task[t].pc = "write" =>
                   files[task[t].filepath].src = Body(task[t].url)

\* C2: with N queued URLs and a concurrency bound K < N, at most K fetches
\* are in flight at any time.
C2_InFlightAtMostMaxWorkers ==
    max_workers < Len(list_to_download) =>
        Cardinality(InFlight) <= max_workers

C2_Witness ==
    /\ max_workers < Len(list_to_download)
    /\ Cardinality(InFlight) = max_workers
    /\ \E t \in Tasks : task[t].pc = "queued"

\* every URL of the list classifies and its target file was on disk when
\* this download call began
AllTargetsExisted ==
    /\ urls # <<>>
    /\ \A i \in 1..Len(urls) :
        /\ Classified[urls[i]].ok
        /\ TargetPath(urls[i]) \in DOMAIN preFiles

\* C3: a download call on a URL list whose target files all exist starts no
\* fetch, leaves every file as it was, and reports a completion count of 0.
C3_RerunDownloadsNothing ==
    AllTargetsExisted =>
        /\ fetchCount = 0
        /\ files = preFiles
        /\ mpc = "returned" => completed_count = 0

C3_Witness ==
    /\ nCalls = 2
    /\ mpc = "returned"
    /\ AllTargetsExisted
    /\ Len(urls) >= 2
    /\ completed_count = 0

\* C4: every file a resume scan skips as already downloaded holds the full
\* body fetched for it, whatever failed in the task that created it.
C4_SkippedFilesAreComplete ==
    \A u \in skipped :
        /\ TargetPath(u) \in DOMAIN files
        /\ files[TargetPath(u)].full

-----------------------------------------------------------------------------
(* Claims about PlanetaryFetchLib.run.                                     *)

DownloadActive ==
    \/ mpc \in {"scan", "submit", "wait"}
    \/ RunningTasks # {}

\* C5: in every run the ledger file holds all records of the catalog
\* response before the first download task starts, so at every point the
\* files downloaded in this run come from products recorded in the ledger
\* on disk.
C5_LedgerBeforeDownloads ==
    /\ DownloadActive => rpc = "download"
    /\ rpc = "download" =>
        /\ ledger.st = "json"
        /\ \A i \in 1..Len(response.items) :
               response.items[i] \in Range(ledger.recs)
        /\ \A path \in DOMAIN files \ DOMAIN preFiles :
               \E p \in Range(ledger.recs) : files[path].src \in Range(p.files)

C5_Witness ==
    /\ nRuns = 2
    /\ rpc = "download"
    /\ preLedger.st = "json"
    /\ Len(ledger.recs) = 2
    /\ Len(preLedger.recs) = 1
    /\ \E path \in DOMAIN files \ DOMAIN preFiles : files[path].full

-----------------------------------------------------------------------------
(* Claims about PdsRequest.parse_response.                                 *)

\* the run has gone past parse_response on the response it holds
Parsed == rpc \in {"save", "download", "returned", "raised"}

\* the same products given as an array
AsArray(rjson) == [kind |-> "array", items |-> rjson.items]

\* C11: a response whose "Product" field is one product object is parsed as
\* the one-element array holding that product: parse_response does not
\* raise, records is that one product and urls its .lbl/.img URLs.
C11_SingleObjectParsedAsArray ==
    (Parsed /\ response.kind = "object") =>
        /\ rpc # "raised"
        /\ callBatch = ParseResponse(AsArray(response)).metadata
        /\ urls = ParseResponse(AsArray(response)).urls

\* a step of a run whose catalog response is "No Products Found": the query
\* that returns it, or what follows its parse
NoProductsStep ==
    /\ response'.kind = "none"
    /\ rpc' = "parse" \/ rpc = "parse"

\* C12: on a "No Products Found" response parse_response raises the
\* no-results condition and yields no record and no URL, and run returns
\* normally without starting a download and without creating or changing
\* the ledger file.
C12_NoProductsRunChangesNothing ==
    [][NoProductsStep =>
          /\ ParseResponse(response').raised = "NoProductFoundException"
          /\ ParseResponse(response').metadata = <<>>
          /\ ParseResponse(response').urls = <<>>
          /\ rpc = "parse" => rpc' = "returned"
          /\ ledger' = ledger
          /\ files' = files
          /\ dirs' = dirs
          /\ task' = task
          /\ fetchCount' = fetchCount]_vars

C12_Witness ==
    /\ nRuns = 2
    /\ response.kind = "none"
    /\ rpc = "returned"
    /\ ledger.st = "json"
    /\ ledger.recs # <<>>

-----------------------------------------------------------------------------
(* Claims about the resume scan and the accounting of Files.download.      *)

\* the URLs of list, in order, whose filename classifies and whose target
\* file is not among existing
RECURSIVE RefWorkList(_, _)
RefWorkList(list, existing) ==
    IF list = <<>> THEN <<>>
    ELSE (IF Classified[Head(list)].ok /\ TargetPath(Head(list)) \notin existing
          THEN <<Head(list)>> ELSE <<>>)
         \o RefWorkList(Tail(list), existing)

\* C13: the work list of the resume scan is the subsequence, in input
\* order, of the URLs that classify and whose target file does not exist; a
\* URL that fails classification is skipped without stopping the scan and is
\* never given to a task; no task exists before the work list is complete.
C13_WorkListIsFilteredSubsequence ==
    /\ mpc = "scan" =>
          /\ task = <<>>
          /\ list_to_download =
                 RefWorkList(SubSeq(urls, 1, nscan), DOMAIN preFiles)
    /\ mpc \in {"submit", "wait", "returned"} =>
          /\ list_to_download = RefWorkList(urls, DOMAIN preFiles)
          /\ Len(task) <= Len(list_to_download)
          /\ \A t \in Tasks :
                /\ task[t].url = list_to_download[t]
                /\ Classified[task[t].url].ok

C13_Witness ==
    /\ Len(urls) = 2
    /\ ~Classified[urls[1]].ok
    /\ list_to_download = <<urls[2]>>
    /\ Len(task) = 1
    /\ task[1].pc = "write"

\* the fetch or the write of task t failed
FetchOrWriteFailed(t) == task[t].exc \in {"RequestException", "OSError"}

\* task t ran to completion and the file at its target path holds the whole
\* body of its URL
WroteItsFile(t) ==
    /\ task[t].pc = "done"
    /\ TargetPath(task[t].url) \in DOMAIN files
    /\ files[TargetPath(task[t].url)] = [src |-> Body(task[t].url), full |-> TRUE]

\* C14: when the fetch or the write of one dispatched task fails, every
\* other dispatched task still runs to completion and writes its file, and
\* download returns to its caller.
C14_TasksAreIndependent ==
    mpc = "returned" =>
        \A s, t \in Tasks :
            (s # t /\ FetchOrWriteFailed(s) /\ ~FetchOrWriteFailed(t)) =>
                WroteItsFile(t)

-----------------------------------------------------------------------------
(* Claims about the command-line entry point.                              *)

\* C15: the process exits with code 0 when the command line is valid and
\* nothing interrupts or fails the run, with a non-zero code after an
\* unhandled exception, and with a code different from both after SIGINT.
C15_ExitCodes ==
    exit_code # NotExited =>
        /\ (ArgvAccepted(argv) /\ ~SIGINT) => exit_code = ExitSuccess
        /\ (main_pc = "except" /\ ~SIGINT) => exit_code # ExitSuccess
        /\ SIGINT => exit_code \notin {ExitSuccess, ExitFailure}

-----------------------------------------------------------------------------
(* Claims about the directory layout.                                      *)

RefPrefixNames == {Upper(p) : p \in RefPrefixes}

\* dir is <base>/<PREFIX><sub>/<PREFIX><subsub>/<DATA|DDR> with sub of
\* subLen characters and subsub of subsubLen characters
RefLayout(dir, subLen, subsubLen) ==
    /\ Len(dir) = 4
    /\ dir[1] = BaseDir
    /\ \E p \in RefPrefixNames :
          /\ StartsWith(dir[2], p) /\ Len(dir[2]) = Len(p) + subLen
          /\ StartsWith(dir[3], p) /\ Len(dir[3]) = Len(p) + subsubLen
    /\ dir[4] \in {DATA, DDR}

\* the directories the classifier has returned and those of the stored files
LayoutDirs ==
    (IF cdone /\ cresult.ok THEN {cresult.dir} ELSE {})
        \cup {path[1] : path \in DOMAIN files}

\* C16 as stated: every stored file lies at
\* <output_dir>/<PREFIX><sub>/<PREFIX><subsub>/<DATA|DDR>/<filename> with
\* sub of 2 or 3 characters and subsub of exactly 4.
C16_Original ==
    /\ \A dir \in LayoutDirs : RefLayout(dir, 2, 4) \/ RefLayout(dir, 3, 4)
    /\ \A path \in DOMAIN files : path[2] \in FileNames

\* C16 amended: every stored file lies at
\* <output_dir>/<PREFIX><sub>/<PREFIX><subsub>/<DATA|DDR>/<filename> with
\* sub of 2 and subsub of 4 characters (long form), or sub of 3 and subsub
\* of 5 characters (short form).
C16_LayoutOfStoredFiles ==
    /\ \A dir \in LayoutDirs : RefLayout(dir, 2, 4) \/ RefLayout(dir, 3, 5)
    /\ \A path \in DOMAIN files : path[2] \in FileNames

C16_Witness ==
    \E p1, p2 \in DOMAIN files :
        /\ RefLayout(p1[1], 2, 4)
        /\ RefLayout(p2[1], 3, 5)
        /\ files[p1].full
        /\ files[p2].full

\* C17: a call of FileOrganizer.organize leaves the directories under the
\* output directory as they were, whether it returns a directory or raises.
C17_OrganizeLeavesFilesystem ==
    [][(~cdone /\ cdone') => cdirs' = cdirs]_vars

\* the directory segments below the base directory
Segments(dir) == SubSeq(dir, 2, Len(dir))

\* C18: the lowercase and the uppercase variant of a filename classify as
\* the filename does, whatever its case: all three fail, or all three give
\* the same directory segments, and these are uppercase.
C18_CaseInsensitiveUppercaseOutput ==
    cdone =>
        /\ OrganizePath(Lower(cname)).ok = cresult.ok
        /\ OrganizePath(Upper(cname)).ok = cresult.ok
        /\ OrganizePath(Lower(cname)).dir = cresult.dir
        /\ OrganizePath(Upper(cname)).dir = cresult.dir
        /\ \A i \in 1..Len(Segments(cresult.dir)) :
              Upper(Segments(cresult.dir)[i]) = Segments(cresult.dir)[i]

C18_Witness ==
    /\ cdone
    /\ cresult.ok
    /\ cname # Lower(cname)
    /\ cname # Upper(cname)
    /\ Lower(SubdirectoryShort(cname)) # Upper(SubdirectoryShort(cname))

-----------------------------------------------------------------------------
(* Claims about the records and URLs of parse_response.                    *)

\* the lowercased URL holds the word somewhere
RefHasWord(url, w) ==
    \E k \in 1..Len(Chars[url]) : RefOccursAt(Lower(Chars[url]), w, k)

\* for every URL of the catalog, whether it is kept
RefKeptUrls ==
    { url \in DOMAIN Chars :
        \/ RefHasWord(url, <<".","l","b","l">>)
        \/ RefHasWord(url, <<".","i","m","g">>) }

RefKept(url) == url \in RefKeptUrls

\* the file URLs of the products, product after product, in order
RECURSIVE RefFileUrls(_)
RefFileUrls(products) ==
    IF products = <<>> THEN <<>>
    ELSE Head(products).files \o RefFileUrls(Tail(products))

\* C19: for an array of products, records is the array as it came and urls
\* holds, in the order of the response and with repetitions kept, exactly
\* the file URLs whose lowercased form contains .lbl or .img; parsing it
\* raises nothing (the run fails only if _save_dict does).
C19_RecordsWholeUrlsFiltered ==
    (Parsed /\ response.kind = "array") =>
        /\ rpc = "raised" => spc = "raised"
        /\ callBatch = response.items
        /\ urls = SelectSeq(RefFileUrls(response.items), RefKept)

C19_Witness ==
    /\ rpc = "save"
    /\ response.items = <<ProductFrt, ProductHrl>>
    /\ urls = <<UrlFrt, UrlHrl, UrlBrowse>>
    /\ callBatch = <<ProductFrt, ProductHrl>>

\* ---------------------------------------------------------------------
\* C20: download has logged its total only when every task it submitted
\* has ended and no future is left; the total is the length of the work
\* list the scan built, one task per entry, and so the number of URLs
\* less those the scan skipped (file already there) or could not classify.
Unclassified == {u \in Range(urls) : ~OrganizePathOf[LastSegmentOf[u]].ok}

C20_CountIsWorkListAfterAllTasksEnd ==
    mpc = "returned" =>
        /\ futures = {}
        /\ Len(task) = Len(list_to_download)
        /\ \A t \in Tasks : /\ task[t].pc \in {"done", "raised"}
                            /\ task[t].url = list_to_download[t]
        /\ completed_count = Len(list_to_download)
        /\ skipped \cap Unclassified = {}
        /\ completed_count =
              Len(urls) - Cardinality(skipped) - Cardinality(Unclassified)

\* a second call over two URLs, one already stored by the first call and
\* skipped, the other attempted again after its failure: the total is 1
C20_Witness ==
    /\ mpc = "returned"
    /\ nCalls = 2
    /\ Len(urls) = 2
    /\ Cardinality(skipped) = 1
    /\ completed_count = 1
    /\ \E t \in Tasks : task[t].pc = "raised"

\* a call over an unclassifiable URL and a classifiable one: total is 1
C20_WitnessUnclassified ==
    /\ mpc = "returned"
    /\ Unclassified # {}
    /\ completed_count = 1
    /\ Len(urls) = 2

-----------------------------------------------------------------------------
(* Claims about failures of the ledger rewrite.                            *)

\* the ledger file exists and json.load cannot decode it
Undecodable(file) == file.st \notin {"absent", "json"}

\* C21: when the ledger file that _save_dict finds exists and cannot be
\* decoded, _save_dict raises and run ends with that exception (it neither
\* goes on to download nor returns), the ledger file stays as it was, and
\* no download task is started: nothing on the download side changes.
C21_UndecodableLedgerFailsRun ==
    [][Undecodable(preLedger') =>
          /\ ledger' = ledger
          /\ spc' \in {"load", "raised"}
          /\ rpc = "save" => rpc' \in {"save", "raised"}
          /\ rpc' # "download"
          /\ UNCHANGED <<files, dirs, mpc, task, futures, fetchCount,
                         nCalls>>]_vars

\* the second run found the ledger file empty and ended with the exception
\* of _save_dict; nothing was ever downloaded
C21_Witness ==
    /\ nRuns = 2
    /\ rpc = "raised"
    /\ spc = "raised"
    /\ prevSpc = "raised"
    /\ Undecodable(preLedger)
    /\ ledger = preLedger
    /\ callBatch # <<>>
    /\ nCalls = 0
    /\ task = <<>>

\* C22: when _save_dict is interrupted, the ledger file holds either the
\* complete ledger it held when the call began or the complete merged
\* ledger, never an empty or truncated content.
C22_LedgerRewrittenAtomically ==
    spc = "raised" =>
        \/ ledger = preLedger
        \/ ledger = JsonFile(metadata)

-----------------------------------------------------------------------------
(* Claims about failures inside a download task.                           *)

\* C23: a task whose classification fails (organize raises
\* NotImplementedError) catches the failure and finishes normally: no task
\* ends with NotImplementedError as an unhandled exception.
C23_ClassificationFailureCaughtInTask ==
    \A t \in Tasks :
        task[t].pc = "raised" => task[t].exc # "NotImplementedError"

-----------------------------------------------------------------------------
(* Claims about the order of the ledger.                                   *)

\* the positions of the batch that hold a record the prior ledger lacks,
\* at its first occurrence in the batch
NewPositions(batch, prior) ==
    {i \in 1..Len(batch) :
        /\ batch[i] \notin Range(prior)
        /\ \A j \in 1..(i - 1) : batch[j] # batch[i]}

\* the k-th smallest element of a set of positions
KthPosition(S, k) == CHOOSE i \in S : Cardinality({j \in S : j <= i}) = k

\* C24: after a merge into an existing, decodable ledger the prior ledger
\* is a prefix of the new one, and the records after it are the records of
\* the batch that the prior ledger lacked, once each, in the order of their
\* first occurrence in the batch.
C24_LedgerGrowsInOrder ==
    (spc = "returned" /\ preLedger.st = "json") =>
        LET prior == preLedger.recs
            added == NewPositions(callBatch, prior)
        IN  /\ ledger.st = "json"
            /\ Len(ledger.recs) = Len(prior) + Cardinality(added)
            /\ SubSeq(ledger.recs, 1, Len(prior)) = prior
            /\ \A k \in 1..Cardinality(added) :
                   ledger.recs[Len(prior) + k] =
                       callBatch[KthPosition(added, k)]

\* two new records merged into a ledger of one record
C24_Witness ==
    /\ spc = "returned"
    /\ preLedger = JsonFile(<<ProductFrt>>)
    /\ callBatch = <<ProductXyz, ProductHrl>>
    /\ ledger = JsonFile(<<ProductFrt, ProductXyz, ProductHrl>>)

\* a batch that repeats a new record after a known one
C24_WitnessRepeat ==
    /\ spc = "returned"
    /\ preLedger = JsonFile(<<ProductFrt, ProductFrt>>)
    /\ callBatch = <<ProductHrl, ProductHrl>>
    /\ ledger = JsonFile(<<ProductFrt, ProductFrt, ProductHrl>>)

-----------------------------------------------------------------------------
(* Claims about the files a download call finds.                           *)

\* C25: at every point of a download call and after it, every file that
\* existed when the call began is still there with the content it had,
\* whatever the URL list and the interleaving of the tasks.
C25_ExistingFilesUntouched ==
    mpc # "idle" =>
        \A path \in DOMAIN preFiles :
            /\ path \in DOMAIN files
            /\ files[path] = preFiles[path]

\* a second call that found one of its two target files, skipped that URL
\* and stored the other file
C25_Witness ==
    /\ mpc = "returned"
    /\ nCalls = 2
    /\ Len(urls) = 2
    /\ Cardinality(DOMAIN preFiles) = 1
    /\ Cardinality(skipped) = 1
    /\ \E path \in DOMAIN files \ DOMAIN preFiles : files[path].full

\* a second call over two URLs with the same filename, whose file the
\* first call stored
C25_WitnessSameFilename ==
    /\ mpc = "returned"
    /\ nCalls = 2
    /\ urls = <<UrlFrt, UrlFrtB>>
    /\ preFiles # NoFiles
    /\ skipped = {UrlFrt, UrlFrtB}

====
